---- MODULE Spec2Model ----
(***************************************************************************)
(* Character-level text generation of lessons/5-NLP/17-GenerativeNetworks  *)
(* (GenerativeTF.ipynb): the vocabulary built around the Keras Tokenizer,  *)
(* decode, and the two generation loops generate (greedy, argmax) and      *)
(* generate_soft (temperature-scaled multinomial sampling).                *)
(*                                                                         *)
(* A text is a sequence of character codes; a key of word_index is a       *)
(* string, i.e. a sequence of character codes too (one code for a          *)
(* character, five for '<eos>').  A model output is a vector of weights    *)
(* over the denominator Den: the entry w stands for the float w/Den.       *)
(***************************************************************************)
EXTENDS Integers, Sequences, FiniteSets

VARIABLES
    word_index,    \* tokenizer.word_index: string -> id
    eos_token,     \* global eos_token
    vocab_size,    \* global vocab_size
    reverse_map,   \* global reverse_map: id -> string
    run,           \* the frame of a call of generate or generate_soft
    run2,          \* the frame of a second call (two calls side by side)
    rng,           \* numpy's global random generator: the draws made from it
    batch,         \* a call of title_batch: its argument and what it returns
    loop,          \* the temperature experiment: the position of its two loops
    emb            \* EmbeddingsTF.ipynb: the loop that fills the matrix W

(* A frame holds the arguments and locals of one call:                      *)
(*   pc           "idle", "loop" (inside the for loop), "done", "error"     *)
(*   fn           "generate" or "generate_soft"                             *)
(*   start, size, temperature   the arguments; temperature is <<num, den>>  *)
(*   inp, chars   the locals of these names                                 *)
(*   aliased      TRUE while inp and chars name the same list object        *)
(*   i            number of loop iterations completed                       *)
(*   out          the vector the model returned last                        *)
(*   nc           the token selected last (NoToken before the first)        *)
(*   fed          the token sequence passed to the model last               *)
(*   calls        number of invocations of the model                        *)
(*   brk          TRUE when the loop was left by break                      *)
(*   err          the exception that ended the call ("none" if none)        *)
(*   result       the text returned                                         *)

vars == <<word_index, eos_token, vocab_size, reverse_map, run, run2, rng,
          batch, loop, emb>>

globals == <<word_index, eos_token, vocab_size, reverse_map>>

\* the cells other than generate and generate_soft
cells == <<batch, loop, emb>>

----------------------------------------------------------------------------
(* Bounds *)

NumChars == 1      \* distinct characters the tokenizer was fitted on
MaxTitle == 3      \* longest title of a minibatch
MaxBatch == 2      \* most titles in a minibatch
NumTemperatures == 2   \* temperatures of the experiment (5 in the notebook)
NumPrompts == 2        \* prompts of the experiment (5 in the notebook)
NumWords == 3          \* words a vocabulary is made of
MaxRows == 3           \* most rows of the embedding matrix (30000 in the notebook)
MaxStart == 1      \* longest start text
MaxSize == 3       \* largest size argument
Den == 3           \* resolution of the model's output: entries are k/Den

----------------------------------------------------------------------------
(* Texts and the vocabulary *)

FirstCode == 97                           \* 'a'
Chars == FirstCode .. (FirstCode + NumChars - 1)
OovCode == 63                             \* '?', a character never fitted
EosKey == <<60, 101, 111, 115, 62>>       \* the string '<eos>'
NoToken == -1
Raise == -2                               \* a draw that raises instead

Texts == UNION {[1..n -> Chars \cup {OovCode}] : n \in 0..MaxStart}

\* Tokenizer(char_level=True).fit_on_texts: the characters get the ids 1..n
\* (id 0 is reserved by the Tokenizer and given to no character).
FitOnTexts == [k \in {<<c>> : c \in Chars} |-> k[1] - FirstCode + 1]

\* (variant) the id after the last character is not taken: len(word_index)
EosTokenOfLast(wi) == Cardinality(DOMAIN wi)

\* eos_token = len(tokenizer.word_index)+1
EosTokenOf(wi) == Cardinality(DOMAIN wi) + 1

\* tokenizer.word_index['<eos>'] = eos_token
AddEos(wi, eos) == [k \in DOMAIN wi \cup {EosKey} |-> IF k = EosKey THEN eos ELSE wi[k]]

\* vocab_size = eos_token + 1
VocabSizeOf(eos) == eos + 1

\* (variant) the reversed dictionary is keyed from 0
ReverseMapOfShifted(wi) ==
    [v \in {wi[k] - 1 : k \in DOMAIN wi} |-> CHOOSE k \in DOMAIN wi : wi[k] = v + 1]

\* reverse_map = {val:key for key, val in tokenizer.word_index.items()}
ReverseMapOf(wi) ==
    [v \in {wi[k] : k \in DOMAIN wi} |-> CHOOSE k \in DOMAIN wi : wi[k] = v]

\* tokenizer.texts_to_sequences([text])[0], char_level: a character without
\* an id is dropped (the Tokenizer has no oov_token).
RECURSIVE texts_to_sequences(_, _)
texts_to_sequences(wi, text) ==
    IF text = <<>> THEN <<>>
    ELSE LET c == <<Head(text)>>
             rest == texts_to_sequences(wi, Tail(text))
         IN  IF c \in DOMAIN wi THEN <<wi[c]>> \o rest ELSE rest

\* decode raises KeyError on a token that is no key of reverse_map
DecodeRaises(rm, x) == \E k \in 1..Len(x) : x[k] \notin DOMAIN rm

\* ''.join([reverse_map[t] for t in x])
RECURSIVE decode(_, _)
decode(rm, x) ==
    IF x = <<>> THEN <<>> ELSE rm[Head(x)] \o decode(rm, Tail(x))

----------------------------------------------------------------------------
(* Model outputs and the selection of the next token *)

RECURSIVE SumSeq(_)
SumSeq(v) == IF v = <<>> THEN 0 ELSE Head(v) + SumSeq(Tail(v))

RECURSIVE Pow(_, _)
Pow(b, e) == IF e = 0 THEN 1 ELSE b * Pow(b, e - 1)

RECURSIVE Prod(_)
Prod(v) == IF v = <<>> THEN 1 ELSE Head(v) * Prod(Tail(v))

\* the vectors of n entries from 0..total that sum to total
RECURSIVE Compositions(_, _)
Compositions(n, total) ==
    IF n = 1 THEN {<<total>>}
    ELSE UNION {{<<k>> \o c : c \in Compositions(n - 1, total - k)} : k \in 0..total}

\* What Dense(vocab_size, activation='softmax') can return: vocab_size
\* non-negative entries that sum to 1.
Dists(V) == Compositions(V, Den)

\* (variant) tf.argmin in place of tf.argmax
ArgMin(v) ==
    CHOOSE t \in 0..(Len(v) - 1) :
        /\ \A u \in 0..(Len(v) - 1) : v[u + 1] >= v[t + 1]
        /\ \A u \in 0..(t - 1) : v[u + 1] > v[t + 1]

\* (variant) an argmax that returns the last index holding the maximum
ArgMaxLast(v) ==
    CHOOSE t \in 0..(Len(v) - 1) :
        /\ \A u \in 0..(Len(v) - 1) : v[u + 1] <= v[t + 1]
        /\ \A u \in (t + 1)..(Len(v) - 1) : v[u + 1] < v[t + 1]

\* tf.argmax(out): the first index holding the maximum (ids count from 0)
ArgMax(v) ==
    CHOOSE t \in 0..(Len(v) - 1) :
        /\ \A u \in 0..(Len(v) - 1) : v[u + 1] <= v[t + 1]
        /\ \A u \in 0..(t - 1) : v[u + 1] < v[t + 1]

\* (variant) an argmax that leaves open which of several maxima it returns
AnyMaximum(v) ==
    {t \in 0..(Len(v) - 1) : \A u \in 0..(Len(v) - 1) : v[u + 1] <= v[t + 1]}

\* the tokens generate may take as nc for the output v
GreedyChoice(v) == {ArgMax(v)}

\* tf.exp works on float32: exp(x) is 0 for every x below about -103.98
\* (the smallest positive float32 is 2^-149)
ExpFloor == 104

\* For p = w/Den < 1, -log(p) is at least 1/Den, so with the temperature
\* 1/den and den > ExpFloor * Den, log(p)/temperature is below -ExpFloor
\* and exp of it is 0 for every entry below 1.
Underflows(den) == den > ExpFloor * Den

\* a temperature close to 0, small enough for that
Tiny == <<1, ExpFloor * Den + 1>>

Temperatures == {<<-1, 1>>, <<0, 1>>, Tiny, <<1, 2>>, <<1, 1>>}

NaN == -1
Inf == -2

\* (variant) the exponent is 1 + 1/temperature: out * exp(log(out)/temperature)
RescaledSharpened(v, t) ==
    [k \in 1..Len(v) |-> IF v[k] < 0 \/ t[1] <= 0 THEN NaN ELSE Pow(v[k], t[2] + 1)]

\* tf.exp(tf.math.log(out)/temperature), entry by entry, for the entry w/Den
\* and the temperature num/den; finite results are weights over one common
\* scale (the normalisation that follows divides the scale out).
\*   log of a negative number is nan; x/0 is -inf for x < 0, nan for x = 0
\*   and +inf for x > 0; exp(-inf) = 0, exp(+inf) = inf, exp(nan) = nan.
Rescaled(v, t) ==
    LET num == t[1]
        den == t[2]
    IN  [k \in 1..Len(v) |->
            IF v[k] < 0 THEN NaN
            ELSE IF num = 0
                 THEN (IF v[k] = Den THEN NaN ELSE IF v[k] < Den THEN 0 ELSE Inf)
            ELSE IF num > 0
                 THEN (IF Underflows(den)
                       THEN (IF v[k] < Den THEN 0 ELSE 1)   \* exp(0) = 1
                       ELSE Pow(v[k], den))                 \* t = 1/den: p^den
            ELSE IF v[k] = 0 THEN Inf    \* t = -1/den: p^(-den)
            ELSE Pow(Prod([j \in 1..Len(v) |->
                              IF j = k \/ v[j] <= 0 THEN 1 ELSE v[j]]), den)]

\* probs = probs/np.sum(probs)
Normalised(p) ==
    LET hasNaN == \E k \in 1..Len(p) : p[k] = NaN
        hasInf == \E k \in 1..Len(p) : p[k] = Inf
    IN  IF hasNaN THEN [k \in 1..Len(p) |-> NaN]
        ELSE IF hasInf THEN [k \in 1..Len(p) |-> IF p[k] = Inf THEN NaN ELSE 0]
        ELSE IF SumSeq(p) = 0 THEN [k \in 1..Len(p) |-> NaN]
        ELSE p

\* (variant) the position of the drawn token counted from 1
DrawsOneBased(p) ==
    IF \E k \in 1..Len(p) : p[k] = NaN
    THEN {Raise} \cup (1..Len(p))
    ELSE {t \in 1..Len(p) : p[t] > 0}

\* np.argmax(np.random.multinomial(1,probs,1)): a token of non-zero
\* probability; with a nan among probs numpy either raises ValueError or
\* returns counts that do not depend on probs in any specified way.
Draws(p) ==
    IF \E k \in 1..Len(p) : p[k] = NaN
    THEN {Raise} \cup (0..(Len(p) - 1))
    ELSE {t \in 0..(Len(p) - 1) : p[t + 1] > 0}

\* the tokens generate_soft may take as nc for the output v
SoftChoice(v, t) == Draws(Normalised(Rescaled(v, t)))

----------------------------------------------------------------------------
(* The notebook's globals after the cells that build the vocabulary *)

InitGlobals ==
    /\ eos_token = EosTokenOf(FitOnTexts)
    /\ word_index = AddEos(FitOnTexts, eos_token)
    /\ vocab_size = VocabSizeOf(eos_token)
    /\ reverse_map = ReverseMapOf(word_index)

One == <<1, 1>>

IdleFrame ==
    [pc |-> "idle", fn |-> "generate", start |-> <<>>, size |-> 0,
     temperature |-> One, inp |-> <<>>, chars |-> <<>>, aliased |-> TRUE,
     i |-> 0, out |-> <<>>, nc |-> NoToken, fed |-> <<>>, calls |-> 0,
     brk |-> FALSE, err |-> "none", result |-> <<>>]

\* title_batch before it is called: x its argument, z the padded ids,
\* inputs and targets the two tensors it returns
IdleBatch == [pc |-> "idle", x |-> <<>>, z |-> <<>>, inputs |-> <<>>, targets |-> <<>>]

\* the temperature experiment before it starts: i and j count the
\* temperatures and the prompts, printed lists the pairs whose text was printed
IdleLoop == [pc |-> "idle", i |-> 1, j |-> 1, printed |-> <<>>]

\* the cell that fills W before it runs
IdleEmb ==
    [pc |-> "idle", vocab |-> <<>>, w2v |-> <<>>, W |-> <<>>,
     i |-> 0, found |-> 0, not_found |-> 0]

Init ==
    /\ InitGlobals
    /\ run = IdleFrame
    /\ run2 = IdleFrame
    /\ rng = 0
    /\ batch = IdleBatch
    /\ loop = IdleLoop
    /\ emb = IdleEmb

----------------------------------------------------------------------------
(* generate and generate_soft *)

\* (variant) decode skips the tokens reverse_map does not hold
ReturnedSkipping(r, x) ==
    LET known(t) == t \in DOMAIN reverse_map
    IN  [r EXCEPT !.pc = "done", !.result = decode(reverse_map, SelectSeq(x, known))]

\* return decode(chars): the text, or the KeyError decode raises
Returned(r, x) ==
    IF DecodeRaises(reverse_map, x)
    THEN [r EXCEPT !.pc = "error", !.err = "KeyError"]
    ELSE [r EXCEPT !.pc = "done", !.result = decode(reverse_map, x)]

\* (variant) the loop makes one iteration more than size
ExhaustedLate(k, n) == k >= n + 1

\* for i in range(size): the loop is over once size iterations were made
Exhausted(k, n) == k >= n

\* inp = tokenizer.texts_to_sequences([start])[0]; chars = inp; for ...
Entered(f, s, n, t) ==
    LET seq == texts_to_sequences(word_index, s)
        r == [IdleFrame EXCEPT !.pc = "loop", !.fn = f, !.start = s, !.size = n,
                               !.temperature = t, !.inp = seq, !.chars = seq]
    IN  IF Exhausted(0, n) THEN Returned(r, r.chars) ELSE r

\* tf.one_hot(inp,vocab_size) of an empty list: the list converts to a float
\* tensor, which one_hot rejects before the model is invoked
InputRejected(x) == x = <<>>

Rejected(r) == [r EXCEPT !.pc = "error", !.err = "InvalidArgumentError"]

\* (variant) the test compares with vocab_size, which no token equals
IsEosOffByOne(tok) == tok = vocab_size

\* if nc==eos_token
IsEos(tok) == tok = eos_token

\* (variant) the token is appended to chars once directly and once more
\* through the other name of the list
AppendedTwice(r, tok) ==
    LET cs == Append(Append(r.chars, tok), tok)
    IN  [r EXCEPT !.chars = cs, !.inp = cs, !.aliased = FALSE]

\* chars.append(nc); inp = inp+[nc].  While inp and chars are the same list
\* object the append is seen through inp as well.
Appended(r, tok) ==
    LET cs == Append(r.chars, tok)
    IN  [r EXCEPT !.chars = cs,
                  !.inp = Append(IF r.aliased THEN cs ELSE r.inp, tok),
                  !.aliased = FALSE]

\* (variant) the model is invoked a second time for the same input
ScoredTwice(r, o) == [r EXCEPT !.out = o, !.fed = r.inp, !.calls = r.calls + 2]

\* out = model(tf.expand_dims(tf.one_hot(inp,vocab_size),0))[0][-1], once
Scored(r, o) == [r EXCEPT !.out = o, !.fed = r.inp, !.calls = r.calls + 1]

\* one iteration of the loop after out = model(...) returned o, with the
\* token selected for nc (or Raise), and what follows when the loop ends
Iterated(r, o, tok) ==
    LET called == Scored(r, o)
    IN  IF tok = Raise
        THEN [called EXCEPT !.pc = "error", !.err = "ValueError"]
        ELSE LET sel == [called EXCEPT !.nc = tok]
             IN  IF IsEos(tok)
                 THEN Returned([sel EXCEPT !.brk = TRUE], sel.chars)
                 ELSE LET app == [Appended(sel, tok) EXCEPT !.i = sel.i + 1]
                      IN  IF Exhausted(app.i, app.size)
                          THEN Returned(app, app.chars)
                          ELSE app

\* the frames one iteration of generate can lead to when the model returns o
GreedyIteration(r, o) ==
    IF InputRejected(r.inp) THEN {Rejected(r)}
    ELSE {Iterated(r, o, tok) : tok \in GreedyChoice(o)}

\* (variant) generate_soft appends the drawn token before the test for
\* eos_token, so the returned sequence ends with it
SoftIterationAppendingEos(r, o) ==
    IF InputRejected(r.inp) THEN {Rejected(r)}
    ELSE {IF IsEos(tok)
          THEN LET app == Appended([Scored(r, o) EXCEPT !.nc = tok, !.brk = TRUE], tok)
               IN  Returned(app, app.chars)
          ELSE Iterated(r, o, tok) : tok \in SoftChoice(o, r.temperature)}

\* the frames one iteration of generate_soft can lead to
SoftIteration(r, o) ==
    IF InputRejected(r.inp) THEN {Rejected(r)}
    ELSE {Iterated(r, o, tok) : tok \in SoftChoice(o, r.temperature)}

\* (variant) decode enters a token it does not find into reverse_map
GlobalsTouched ==
    /\ UNCHANGED <<word_index, eos_token, vocab_size>>
    /\ reverse_map' = [v \in DOMAIN reverse_map \cup {0} |->
                          IF v \in DOMAIN reverse_map THEN reverse_map[v] ELSE <<>>]

\* generate and generate_soft assign only their locals inp, chars, out,
\* probs and nc; the tokenizer and the globals are read
GlobalsKept == UNCHANGED globals

\* np.random.multinomial draws from numpy's global generator and leaves it
\* advanced; an iteration that raised before or in the draw made none
Drawn(g, r) ==
    IF r.err \in {"InvalidArgumentError", "ValueError"} THEN g ELSE g + 1

Call ==
    /\ run.pc = "idle"
    /\ \E s \in Texts, n \in 0..MaxSize :
          \/ run' = Entered("generate", s, n, One)
          \/ \E t \in Temperatures : run' = Entered("generate_soft", s, n, t)
    /\ GlobalsKept
    /\ UNCHANGED cells
    /\ UNCHANGED <<run2, rng>>

GreedyStep ==
    /\ run.pc = "loop" /\ run.fn = "generate"
    /\ \E o \in Dists(vocab_size) : run' \in GreedyIteration(run, o)
    /\ GlobalsKept
    /\ UNCHANGED cells
    /\ UNCHANGED <<run2, rng>>

SoftStep ==
    /\ run.pc = "loop" /\ run.fn = "generate_soft"
    /\ \E o \in Dists(vocab_size) : run' \in SoftIteration(run, o)
    /\ rng' = Drawn(rng, run')
    /\ GlobalsKept
    /\ UNCHANGED cells
    /\ UNCHANGED run2

Next == Call \/ GreedyStep \/ SoftStep

Spec == Init /\ [][Next]_vars

\* A loop iteration is a blocking call of the model followed by straight-line
\* code: when the model returns on every call, an iteration that can run does.
SpecLive == Spec /\ WF_vars(GreedyStep) /\ WF_vars(SoftStep)

----------------------------------------------------------------------------
(* The model argument as an arbitrary callable: generate and generate_soft  *)
(* take whatever vector model(...)[0][-1] is, also one no softmax returns.  *)

Outputs(V) ==
    [1..V -> -1..Den] \cup [1..(V - 1) -> {0, Den}] \cup [1..(V + 1) -> {0, Den}]

Malformed(V, v) ==
    \/ Len(v) # V
    \/ \E k \in 1..Len(v) : v[k] < 0
    \/ SumSeq(v) # Den

GreedyStepAny ==
    /\ run.pc = "loop" /\ run.fn = "generate"
    /\ \E o \in Outputs(vocab_size) : run' \in GreedyIteration(run, o)
    /\ GlobalsKept
    /\ UNCHANGED cells
    /\ UNCHANGED <<run2, rng>>

SoftStepAny ==
    /\ run.pc = "loop" /\ run.fn = "generate_soft"
    /\ \E o \in Outputs(vocab_size) : run' \in SoftIteration(run, o)
    /\ rng' = Drawn(rng, run')
    /\ GlobalsKept
    /\ UNCHANGED cells
    /\ UNCHANGED run2

NextAny == Call \/ GreedyStepAny \/ SoftStepAny

SpecAnyModel == Init /\ [][NextAny]_vars

----------------------------------------------------------------------------
(* Two calls of generate with the same arguments and the same model, step   *)
(* by step: the model is a function, so equal inputs get equal outputs.     *)

CallPair ==
    /\ run.pc = "idle" /\ run2.pc = "idle"
    /\ \E s \in Texts, n \in 0..MaxSize :
          /\ run' = Entered("generate", s, n, One)
          /\ run2' = Entered("generate", s, n, One)
    /\ GlobalsKept
    /\ UNCHANGED cells
    /\ UNCHANGED rng

PairStep ==
    /\ run.pc = "loop" \/ run2.pc = "loop"
    /\ \E o1 \in Dists(vocab_size) :
       \E o2 \in (IF run.inp = run2.inp THEN {o1} ELSE Dists(vocab_size)) :
          /\ run' \in (IF run.pc = "loop" THEN GreedyIteration(run, o1) ELSE {run})
          /\ run2' \in (IF run2.pc = "loop" THEN GreedyIteration(run2, o2) ELSE {run2})
    /\ GlobalsKept
    /\ UNCHANGED cells
    /\ UNCHANGED rng

NextPair == CallPair \/ PairStep

SpecPair == Init /\ [][NextPair]_vars

----------------------------------------------------------------------------
(* generate and generate_soft side by side on the same start, size and      *)
(* model, iteration by iteration, for as long as both are in the loop with  *)
(* the same input: the model then returns the same output to both.  The     *)
(* comparison ends with the first iteration after which they differ.        *)

CallTwin ==
    /\ run.pc = "idle" /\ run2.pc = "idle"
    /\ \E s \in Texts, n \in 0..MaxSize, t \in Temperatures :
          /\ run' = Entered("generate", s, n, One)
          /\ run2' = Entered("generate_soft", s, n, t)
    /\ GlobalsKept
    /\ UNCHANGED cells
    /\ UNCHANGED rng

TwinStep ==
    /\ run.pc = "loop" /\ run2.pc = "loop" /\ run.inp = run2.inp
    /\ \E o \in Dists(vocab_size) :
          /\ run' \in GreedyIteration(run, o)
          /\ run2' \in SoftIteration(run2, o)
    /\ rng' = Drawn(rng, run2')
    /\ GlobalsKept
    /\ UNCHANGED cells

NextTwin == CallTwin \/ TwinStep

SpecTwin == Init /\ [][NextTwin]_vars

----------------------------------------------------------------------------
(* Two calls running concurrently (two threads of one interpreter): each    *)
(* has its own frame, and their loop iterations interleave in any order.    *)

Functions == {"generate", "generate_soft"}

CallFirst ==
    /\ run.pc = "idle"
    /\ \E f \in Functions, s \in Texts, n \in 0..MaxSize : run' = Entered(f, s, n, One)
    /\ GlobalsKept
    /\ UNCHANGED cells
    /\ UNCHANGED <<run2, rng>>

CallSecond ==
    /\ run2.pc = "idle"
    /\ \E f \in Functions, s \in Texts, n \in 0..MaxSize : run2' = Entered(f, s, n, One)
    /\ GlobalsKept
    /\ UNCHANGED cells
    /\ UNCHANGED <<run, rng>>

GreedyStepSecond ==
    /\ run2.pc = "loop" /\ run2.fn = "generate"
    /\ \E o \in Dists(vocab_size) : run2' \in GreedyIteration(run2, o)
    /\ GlobalsKept
    /\ UNCHANGED cells
    /\ UNCHANGED <<run, rng>>

SoftStepSecond ==
    /\ run2.pc = "loop" /\ run2.fn = "generate_soft"
    /\ \E o \in Dists(vocab_size) : run2' \in SoftIteration(run2, o)
    /\ rng' = Drawn(rng, run2')
    /\ GlobalsKept
    /\ UNCHANGED cells
    /\ UNCHANGED run

NextConc ==
    \/ CallFirst \/ GreedyStep \/ SoftStep
    \/ CallSecond \/ GreedyStepSecond \/ SoftStepSecond

SpecConc == Init /\ [][NextConc]_vars

----------------------------------------------------------------------------
(* title_batch: a minibatch of titles to the input and target tensors       *)

\* the titles of the minibatches: texts of a fitted character and of a
\* character the tokenizer was not fitted on, the empty title among them
Titles == UNION {[1..n -> {FirstCode, OovCode}] : n \in 0..MaxTitle}

\* the minibatches of n titles
Batches(n) == [1..n -> Titles]

MaxOf(S) == CHOOSE m \in S : \A k \in S : k <= m

\* (variant) the rows are filled up with eos_token: pad_sequences(z, value=eos_token)
PadSequencesWithEos(zs) ==
    LET maxlen == MaxOf({Len(zs[r]) : r \in 1..Len(zs)})
    IN  [r \in 1..Len(zs) |->
            [k \in 1..(maxlen - Len(zs[r])) |-> eos_token] \o zs[r]]

\* tf.keras.preprocessing.sequence.pad_sequences(z): every row is brought to
\* the length of the longest by zeroes put in front (padding='pre')
pad_sequences(zs) ==
    LET maxlen == MaxOf({Len(zs[r]) : r \in 1..Len(zs)})
    IN  [r \in 1..Len(zs) |->
            [k \in 1..(maxlen - Len(zs[r])) |-> 0] \o zs[r]]

\* tf.one_hot(z, depth) of a matrix of ids: a vector per id, 1 at its position
one_hot(z, depth) ==
    [r \in 1..Len(z) |->
        [k \in 1..Len(z[r]) |->
            [d \in 1..depth |-> IF d = z[r][k] + 1 THEN 1 ELSE 0]]]

\* tf.concat([z[:,1:], tf.constant(eos_token,shape=(len(z),1))], axis=1)
Shifted(z, eos) ==
    [r \in 1..Len(z) |-> Append(SubSeq(z[r], 2, Len(z[r])), eos)]

\* the encoded titles of a minibatch: tokenizer.texts_to_sequences(x)
Encoded(x) == [r \in 1..Len(x) |-> texts_to_sequences(word_index, x[r])]

title_batch(x) ==
    LET z == pad_sequences(Encoded(x))
    IN  [pc |-> "done", x |-> x, z |-> z,
         inputs |-> one_hot(z, vocab_size),
         targets |-> one_hot(Shifted(z, eos_token), vocab_size)]

TitleBatch ==
    /\ batch.pc = "idle"
    /\ \E n \in 1..MaxBatch : \E x \in Batches(n) : batch' = title_batch(x)
    /\ GlobalsKept
    /\ UNCHANGED <<run, run2, rng, loop, emb>>

NextBatch == TitleBatch

SpecBatch == Init /\ [][NextBatch]_vars

----------------------------------------------------------------------------
(* The temperature experiment:                                              *)
(*   for i in [0.3,0.8,1.0,1.3,1.8]:                                        *)
(*       for j in range(5):                                                 *)
(*           print(generate_soft(model,size=300,start=words[j],temperature=i)) *)
(* The temperatures of the list are above 0 and away from it, so that a     *)
(* draw returns a token of non-zero probability whichever of them is used:  *)
(* the list is represented by 1/2 followed by 1.  The prompts are texts of  *)
(* fitted characters, and size is MaxSize.                                  *)

temperatures(i) == IF i = 1 THEN <<1, 2>> ELSE One

words(j) == [k \in 1..MaxStart |-> FirstCode]

\* the next position of the two loops after (i, j), or the end
Advanced(l) ==
    IF l.j < NumPrompts THEN [l EXCEPT !.pc = "idle", !.j = l.j + 1]
    ELSE IF l.i < NumTemperatures THEN [l EXCEPT !.pc = "idle", !.i = l.i + 1, !.j = 1]
    ELSE [l EXCEPT !.pc = "done"]

\* generate_soft(model,size=300,start=words[j],temperature=i) is called
ExperimentCall ==
    /\ loop.pc = "idle" /\ run.pc = "idle"
    /\ run' = Entered("generate_soft", words(loop.j), MaxSize, temperatures(loop.i))
    /\ loop' = [loop EXCEPT !.pc = "calling"]
    /\ GlobalsKept
    /\ UNCHANGED <<run2, rng, batch, emb>>

\* the call returned a text: print(...) and on to the next pair
ExperimentPrint ==
    /\ loop.pc = "calling" /\ run.pc = "done"
    /\ loop' = Advanced([loop EXCEPT !.printed = Append(loop.printed, <<loop.i, loop.j>>)])
    /\ run' = IdleFrame
    /\ GlobalsKept
    /\ UNCHANGED <<run2, rng, batch, emb>>

\* the call raised: nothing catches the exception and the cell ends
ExperimentAbort ==
    /\ loop.pc = "calling" /\ run.pc = "error"
    /\ loop' = [loop EXCEPT !.pc = "aborted"]
    /\ GlobalsKept
    /\ UNCHANGED <<run, run2, rng, batch, emb>>

NextLoop == ExperimentCall \/ SoftStep \/ ExperimentPrint \/ ExperimentAbort

SpecLoop == Init /\ [][NextLoop]_vars

----------------------------------------------------------------------------
(* EmbeddingsTF.ipynb, the embedding matrix filled from Word2Vec:           *)
(*   vocab = vectorizer.get_vocabulary()                                    *)
(*   W = np.zeros((vocab_size,embed_size))                                  *)
(*   found, not_found = 0,0                                                 *)
(*   for i,w in enumerate(vocab):                                           *)
(*       try:    W[i] = w2v.get_vector(w); found+=1                         *)
(*       except: not_found+=1                                               *)
(* A word is a number of 1..NumWords, a Word2Vec vector is one of Vectors   *)
(* and 0 stands for the vector of zeroes.  Row i of the code is row i + 1   *)
(* here.  The vectorizer keeps at most max_tokens = vocab_size words, each  *)
(* once, so the vocabulary is no longer than W has rows.                    *)

Words == 1..NumWords

Vectors == {1, 2}

\* the vocabularies of a vectorizer limited to rows words
Vocabularies(rows) ==
    {v \in UNION {[1..n -> Words] : n \in 0..rows} :
        \A a, b \in DOMAIN v : a # b => v[a] # v[b]}

\* the pretrained models: some of the words have a vector
KeyedVectors == UNION {[known -> Vectors] : known \in SUBSET Words}

\* one pass of the loop body in which a failed lookup is not caught
EmbedIterationUncaught(e) ==
    LET w == e.vocab[e.i + 1] IN
    IF w \in DOMAIN e.w2v
    THEN [e EXCEPT !.W[e.i + 1] = e.w2v[w], !.found = e.found + 1, !.i = e.i + 1]
    ELSE [e EXCEPT !.pc = "error"]

\* one pass of the loop body, for the word at position e.i
EmbedIteration(e) ==
    LET w == e.vocab[e.i + 1] IN
    IF w \in DOMAIN e.w2v
    THEN [e EXCEPT !.W[e.i + 1] = e.w2v[w], !.found = e.found + 1, !.i = e.i + 1]
    ELSE [e EXCEPT !.not_found = e.not_found + 1, !.i = e.i + 1]

\* vocab, W, found and not_found are set up
EmbedStart ==
    /\ emb.pc = "idle"
    /\ \E rows \in 1..MaxRows :
       \E v \in Vocabularies(rows), m \in KeyedVectors :
          emb' = [pc |-> "loop", vocab |-> v, w2v |-> m, W |-> [r \in 1..rows |-> 0],
                  i |-> 0, found |-> 0, not_found |-> 0]
    /\ GlobalsKept
    /\ UNCHANGED <<run, run2, rng, batch, loop>>

\* for i,w in enumerate(vocab): the next word
EmbedStep ==
    /\ emb.pc = "loop" /\ emb.i < Len(emb.vocab)
    /\ emb' = EmbedIteration(emb)
    /\ GlobalsKept
    /\ UNCHANGED <<run, run2, rng, batch, loop>>

\* the vocabulary is exhausted: print(f"Done, found ...")
EmbedDone ==
    /\ emb.pc = "loop" /\ emb.i = Len(emb.vocab)
    /\ emb' = [emb EXCEPT !.pc = "done"]
    /\ GlobalsKept
    /\ UNCHANGED <<run, run2, rng, batch, loop>>

NextEmbed == EmbedStart \/ EmbedStep \/ EmbedDone

SpecEmbed == Init /\ [][NextEmbed]_vars

----------------------------------------------------------------------------
(* Properties *)

\* the encoded start text of a frame
Seed(r) == texts_to_sequences(word_index, r.start)

Ended(r) == r.pc \in {"done", "error"}

\* the tokens a frame appended to its working sequence
Generated(r) == SubSeq(r.chars, Len(Seed(r)) + 1, Len(r.chars))

\* C1: at every step the sequence passed to the model is the working
\* sequence accumulated so far (the seed followed by the tokens selected in
\* the earlier steps, each once and in order): whenever an iteration is
\* about to run, inp equals chars.
C1_InputIsWorkingSequence ==
    run.pc = "loop" => run.inp = run.chars

\* C2: the sequence a call returns has at least len(seed) and at most
\* len(seed) + size tokens, and so has the text decoded from it.
C2_ReturnedLengthBounds ==
    run.pc = "done" =>
        /\ Len(Seed(run)) <= Len(run.chars)
        /\ Len(run.chars) <= Len(Seed(run)) + run.size
        /\ Len(run.result) = Len(run.chars)

C2_Witness ==
    /\ run.pc = "done" /\ run.size = MaxSize /\ ~run.brk
    /\ Seed(run) # <<>>
    /\ Len(run.chars) = Len(Seed(run)) + run.size

\* C3: a selected token equal to eos_token stops the loop and is not
\* appended: no appended token is eos_token, and after a step that selected
\* eos_token the call has ended by break.
C3_EosNeverAppended ==
    /\ \A k \in 1..Len(Generated(run)) : Generated(run)[k] # eos_token
    /\ run.nc = eos_token => (run.brk /\ Ended(run))

C3_Witness ==
    /\ run.nc = eos_token /\ run.brk /\ run.pc = "done"
    /\ Len(Generated(run)) > 0

\* C4: reverse_map has exactly one entry for every id in [0, vocab_size),
\* no two symbols share an id, and every non-EOS token selected is decodable.
C4_VocabularyBijection ==
    /\ \A t \in 0..(vocab_size - 1) : t \in DOMAIN reverse_map
    /\ \A a, b \in DOMAIN word_index : word_index[a] = word_index[b] => a = b
    /\ (run.nc # NoToken /\ run.nc # eos_token) => run.nc \in DOMAIN reverse_map

\* C5: when the working sequence holds a token reverse_map lacks, the call
\* ends with the KeyError of decode and returns no text; a text is only
\* returned when every token decodes, and is then the decoded sequence.
C5_LookupFailureSurfaces ==
    /\ (Ended(run) /\ run.err \notin {"ValueError", "InvalidArgumentError"}
          /\ DecodeRaises(reverse_map, run.chars))
          => (run.pc = "error" /\ run.err = "KeyError" /\ run.result = <<>>)
    /\ run.pc = "done" => ~DecodeRaises(reverse_map, run.chars)

C5_Witness ==
    /\ run.pc = "error" /\ run.err = "KeyError"
    /\ \E k \in 1..Len(run.chars) : run.chars[k] = 0
    /\ \E k \in 1..Len(run.chars) : run.chars[k] \in DOMAIN reverse_map

\* C6: generate_soft with a temperature <= 0 (and size > 0) is rejected
\* before generation starts: the model is never invoked, no token is
\* appended, and no text is returned.
C6_InvalidPolicyRejected ==
    (run.pc # "idle" /\ run.fn = "generate_soft" /\ run.temperature[1] <= 0
        /\ run.size > 0)
        => (run.calls = 0 /\ run.chars = Seed(run) /\ run.pc # "done")

\* C7: when the vector the model returns has a length other than vocab_size,
\* a negative entry or a sum other than 1, the call ends in an error with
\* that step, which selects no token and appends none.
C7_InvalidDistributionAborts ==
    [][(run'.calls = run.calls + 1 /\ Malformed(vocab_size, run'.out))
          => (run'.pc = "error" /\ run'.nc = run.nc /\ run'.chars = run.chars)]_vars

OneHot(V, t) == [k \in 1..V |-> IF k = t + 1 THEN Den ELSE 0]

\* C9: when the model returns the one-hot distribution on eos_token,
\* generate ends with that step by break and appends nothing in it (every
\* earlier invocation appended one token); when it is the first step the
\* call returns the text of the seed.
C9_OneHotEosStopsGreedy ==
    (run.fn = "generate" /\ run.out = OneHot(vocab_size, eos_token)) =>
        /\ Ended(run) /\ run.brk /\ run.nc = eos_token
        /\ Len(run.chars) = Len(Seed(run)) + run.calls - 1
        /\ run.calls = 1 =>
              /\ run.chars = Seed(run)
              /\ run.pc = "done"
              /\ run.result = decode(reverse_map, Seed(run))

C9_Witness ==
    /\ run.fn = "generate" /\ run.out = OneHot(vocab_size, eos_token)
    /\ run.calls = 1 /\ run.size = MaxSize /\ run.pc = "done"
    /\ run.chars = <<1>> /\ run.result = <<FirstCode>>

\* C10: when the steps of a call (greedy, or with a temperature > 0) select
\* no eos_token the loop makes exactly size iterations, the sequence has
\* len(seed) + size tokens and the call returns normally, as after eos_token.
C10_BudgetExhaustionIsNormal ==
    (Ended(run) /\ run.calls > 0 /\ ~run.brk /\ run.temperature[1] > 0) =>
        /\ run.i = run.size
        /\ Len(run.chars) = Len(Seed(run)) + run.size
        /\ run.pc = "done" /\ run.err = "none"
        /\ run.result = decode(reverse_map, run.chars)

\* C11: an empty seed is a valid input: a call of generate with size > 0
\* whose start encodes to the empty sequence invokes the model and ends
\* without an error; with the model always returning the one-hot vector on
\* token 0 and size 3 it returns a text for the tokens [0, 0, 0].
C11_EmptySeedGenerates ==
    (run.fn = "generate" /\ Seed(run) = <<>> /\ run.size > 0 /\ Ended(run)) =>
        /\ run.calls > 0
        /\ run.pc = "done" /\ run.err = "none"
        /\ (run.size = 3 /\ run.out = OneHot(vocab_size, 0) /\ ~run.brk)
              => run.chars = <<0, 0, 0>>

C15_ZeroStaysZero ==
    (run.fn = "generate_soft" /\ run.temperature[1] > 0 /\ run.calls > 0) =>
        LET probs == Normalised(Rescaled(run.out, run.temperature))
        IN  /\ \A k \in 1..Len(run.out) :
                 /\ probs[k] # NaN
                 /\ run.out[k] = 0 => probs[k] = 0
            /\ run.err # "ValueError"
            /\ run.nc \in 0..(Len(run.out) - 1)
            /\ run.out[run.nc + 1] > 0

C12_TwoStateMachine ==
    [][/\ (run.pc = "loop" /\ run'.pc = "loop") =>
             /\ run'.nc \in 0..(vocab_size - 1) /\ run'.nc # eos_token
             /\ run'.chars = Append(run.chars, run'.nc)
             /\ run'.i = run.i + 1 /\ run'.i < run'.size
             /\ run'.err = "none" /\ ~run'.brk
       /\ (run.pc = "loop" /\ (run'.brk \/ run'.i >= run'.size \/ run'.err # "none")) =>
             Ended(run')
       /\ run.pc = "loop" => run'.pc \in {"loop", "done", "error"}
       /\ Ended(run) => run' = run]_vars

C12_Witness ==
    /\ Ended(run) /\ run.brk /\ run.i = 1 /\ run.i + 1 < run.size

\* C13: every call ends: a call makes at most size iterations and at most
\* size invocations of the model, every step in the loop completes one
\* iteration or ends the call, and a call that is in its loop eventually is
\* done or has raised.
C13_Terminates ==
    /\ [](run.i <= run.size /\ run.calls <= run.size)
    /\ [][run.pc = "loop" => (Ended(run') \/ run'.i = run.i + 1)]_vars
    /\ (run.pc = "loop") ~> Ended(run)

C13_Witness ==
    /\ run.pc = "done" /\ ~run.brk /\ run.size = MaxSize /\ run.calls = run.size

\* C16: two concurrent calls share no mutable state: a step of one call
\* changes only that call's frame, so it leaves the globals as they were
\* and, while the other call is in the loop of generate_soft and draws from
\* the random source, leaves the random source as it was.
C16_NoSharedMutableState ==
    [][/\ (run' # run /\ run2.pc = "loop" /\ run2.fn = "generate_soft") => rng' = rng
       /\ (run2' # run2 /\ run.pc = "loop" /\ run.fn = "generate_soft") => rng' = rng
       /\ run' = run \/ run2' = run2
       /\ UNCHANGED globals]_vars

\* C18: a call has no effect on what it consumes: every step of generate
\* and generate_soft leaves word_index, eos_token, vocab_size and
\* reverse_map as they were.
C18_GlobalsUnchanged ==
    [][run' # run =>
          /\ word_index' = word_index /\ eos_token' = eos_token
          /\ vocab_size' = vocab_size /\ reverse_map' = reverse_map]_vars

C18_Witness ==
    /\ run.pc = "done" /\ run.calls = 2 /\ run.fn = "generate_soft"
    /\ reverse_map = ReverseMapOf(word_index) /\ vocab_size = eos_token + 1

\* the entries of a vector are all the same number
Uniform(v) == \A j, k \in 1..Len(v) : v[j] = v[k]

\* C21: with a temperature close to 0 generate_soft makes the greedy choice:
\* the draw does not fail and the token drawn is the one tf.argmax selects on
\* the same output.
C21_NearZeroIsGreedy ==
    (run.fn = "generate_soft" /\ run.temperature = Tiny /\ run.calls > 0) =>
        /\ run.err # "ValueError"
        /\ run.nc = ArgMax(run.out)

\* C22: when the model's output is uniform, the probabilities generate_soft
\* draws from are uniform again (equal, positive numbers) for every
\* temperature > 0.
C22_UniformStaysUniform ==
    (/\ run.fn = "generate_soft" /\ run.temperature[1] > 0
     /\ run.calls > 0 /\ Uniform(run.out)) =>
        LET probs == Normalised(Rescaled(run.out, run.temperature))
        IN  /\ Uniform(probs)
            /\ \A k \in 1..Len(probs) : probs[k] > 0

\* C23: with temperature 1.0 the probabilities generate_soft draws from are
\* the ones the model returned.
C23_TemperatureOneIsFair ==
    (run.fn = "generate_soft" /\ run.temperature = One /\ run.calls > 0) =>
        Normalised(Rescaled(run.out, run.temperature)) = run.out

C23_Witness ==
    /\ run.fn = "generate_soft" /\ run.temperature = One /\ run.calls > 0
    /\ run.out = <<2, 1, 0>> /\ run.nc = 1

\* C26: eos_token is a fresh id inside the one-hot range: it differs from
\* the id of every character of the word index and from the padding id 0,
\* and 0, every character id and eos_token are below vocab_size; so are the
\* tokens of every encoded start text.
C26_EosFreshAndInRange ==
    /\ \A k \in DOMAIN word_index \ {EosKey} : word_index[k] # eos_token
    /\ eos_token # 0
    /\ word_index[EosKey] = eos_token
    /\ \A k \in DOMAIN word_index : word_index[k] \in 1..(vocab_size - 1)
    /\ 0 < vocab_size
    /\ \A k \in 1..Len(Seed(run)) :
          Seed(run)[k] \in 0..(vocab_size - 1) /\ Seed(run)[k] # eos_token

C26_Witness ==
    /\ run.pc = "loop" /\ Seed(run) # <<>> /\ run.inp = Seed(run)
    /\ eos_token = Cardinality(DOMAIN FitOnTexts) + 1

\* C27: in generate and generate_soft every token of the working sequence
\* and of the sequence passed to the model is an integer of the range
\* 0 .. vocab_size - 1 (the model returning vocab_size entries).
C27_TokensInRange ==
    run.pc # "idle" =>
        /\ \A k \in 1..Len(run.chars) : run.chars[k] \in 0..(vocab_size - 1)
        /\ \A k \in 1..Len(run.inp) : run.inp[k] \in 0..(vocab_size - 1)
        /\ \A k \in 1..Len(run.fed) : run.fed[k] \in 0..(vocab_size - 1)
        /\ run.calls > 0 => Len(run.out) = vocab_size

C27_Witness ==
    /\ run.pc = "loop" /\ run.fn = "generate_soft" /\ run.calls = 2
    /\ Generated(run) = <<0, 1>> /\ Len(run.fed) > Len(Seed(run))

\* two frames agree in everything but the function and its temperature
Same(a, b) ==
    /\ a.pc = b.pc /\ a.err = b.err /\ a.brk = b.brk
    /\ a.i = b.i /\ a.calls = b.calls
    /\ a.inp = b.inp /\ a.fed = b.fed /\ a.out = b.out
    /\ a.chars = b.chars /\ a.result = b.result

\* C28: generate_soft differs from generate only in the selection of the
\* next token: side by side on the same start, size and model, as long as
\* every draw of generate_soft returns the token tf.argmax returns, the two
\* calls pass the same sequences to the model, hold the same working
\* sequence and end the same way with the same text.
C28_SoftFollowsGreedy ==
    [][(/\ Same(run, run2)
        /\ run2'.nc = run'.nc
        /\ run2'.err # "ValueError") => Same(run', run2')]_vars

C28_Witness ==
    /\ run.pc = "done" /\ run2.pc = "done" /\ run2.fn = "generate_soft"
    /\ run2.temperature = <<1, 2>> /\ Len(Generated(run2)) = 2
    /\ run.fed = run2.fed /\ run.result = run2.result

\* C24: for every row of a minibatch title_batch returns a target row of the
\* length of the input row, which is the input row shifted left by one and
\* ended by eos_token: target[i] = input[i+1] below the last position and
\* target[last] is eos_token.
C24_TargetIsShiftedInput ==
    batch.pc = "done" =>
        \A r \in 1..Len(batch.x) :
            LET inp == batch.inputs[r]
                tgt == batch.targets[r]
            IN  /\ Len(tgt) = Len(inp)
                /\ \A k \in 1..(Len(tgt) - 1) : tgt[k] = inp[k + 1]
                /\ tgt[Len(tgt)] = [d \in 1..vocab_size |-> IF d = eos_token + 1 THEN 1 ELSE 0]

\* C25: title_batch pads the titles of a minibatch to the longest of them:
\* the input rows all have the length of the longest encoded title and the
\* target rows all have one length, and every input row is the encoded
\* title, whole and in order, behind positions that hold the padding id 0.
C25_PaddedToLongest ==
    batch.pc = "done" =>
        LET enc == Encoded(batch.x)
            maxlen == MaxOf({Len(enc[r]) : r \in 1..Len(enc)})
        IN  /\ Len(batch.inputs) = Len(batch.x) /\ Len(batch.targets) = Len(batch.x)
            /\ \A r \in 1..Len(batch.x) :
                  /\ Len(batch.inputs[r]) = maxlen
                  /\ Len(batch.targets[r]) = Len(batch.targets[1])
                  /\ batch.inputs[r] = one_hot(<<batch.z[r]>>, vocab_size)[1]
                  /\ SubSeq(batch.z[r], maxlen - Len(enc[r]) + 1, maxlen) = enc[r]
                  /\ \A k \in 1..(maxlen - Len(enc[r])) : batch.z[r][k] = 0
                  /\ \A k \in 1..Len(enc[r]) : enc[r][k] # 0

C25_Witness ==
    /\ batch.pc = "done" /\ Len(batch.x) = 2
    /\ batch.x = <<<<OovCode, FirstCode>>, <<FirstCode, FirstCode>>>>
    /\ batch.z = <<<<0, 1>>, <<1, 1>>>>

\* C29: the temperature experiment prints a text for every pair of a
\* temperature and a prompt, in order: no call of generate_soft keeps the
\* calls for the later pairs from running, so the cell never ends early and
\* ends with all the pairs printed.
C29_EveryPairPrinted ==
    /\ loop.pc # "aborted"
    /\ loop.pc = "done" =>
          /\ Len(loop.printed) = NumTemperatures * NumPrompts
          /\ \A k \in 1..Len(loop.printed) :
                loop.printed[k] = <<((k - 1) \div NumPrompts) + 1, ((k - 1) % NumPrompts) + 1>>

\* the positions of the vocabulary whose word has a Word2Vec vector
FoundRows(e) == {r \in 1..Len(e.vocab) : e.vocab[r] \in DOMAIN e.w2v}

\* C30: the loop that fills the embedding matrix visits every word of the
\* vocabulary once and no lookup that fails ends it: found + not_found is
\* the number of words visited, at the end the length of the vocabulary;
\* then the row of every word Word2Vec has is that word's vector, and the
\* row of every word it lacks and every row past the vocabulary is zero.
C30_MatrixPopulated ==
    /\ emb.pc \in {"idle", "loop", "done"}
    /\ emb.pc # "idle" =>
          /\ emb.i <= Len(emb.vocab)
          /\ emb.found + emb.not_found = emb.i
    /\ emb.pc = "done" =>
          /\ emb.found + emb.not_found = Len(emb.vocab)
          /\ emb.found = Cardinality(FoundRows(emb))
          /\ \A r \in 1..Len(emb.W) :
                emb.W[r] = IF r \in FoundRows(emb) THEN emb.w2v[emb.vocab[r]] ELSE 0

C30_Witness ==
    /\ emb.pc = "done"
    /\ emb.found > 0 /\ emb.not_found > 0
    /\ Len(emb.W) > Len(emb.vocab)
    /\ \E r \in 1..Len(emb.vocab) : r < Len(emb.vocab) /\ emb.vocab[r] \notin DOMAIN emb.w2v

====
